---------------------------- MODULE Spec2Model ----------------------------
(***************************************************************************)
(* Graduate Analytics Dashboard (src/Code/BiomedD.py).                     *)
(*                                                                         *)
(* The script runs top to bottom once per uploaded file.  The model keeps  *)
(* the script's position (pc), the table df it rewrites in place, the      *)
(* exception that aborted the run (error), the metrics handed to           *)
(* st.metric and the aggregation tables handed to the charts.              *)
(*                                                                         *)
(* Text is modelled as a sequence of one-character strings, so that        *)
(* splitting, whitespace removal and dictionary lookups are computed       *)
(* character by character, as Python computes them.  The missing value     *)
(* (None / NaN) that pandas pads short rows with is NoneValue, a one-      *)
(* element sequence whose element is no single character, so it equals no  *)
(* text.                                                                   *)
(***************************************************************************)
EXTENDS Integers, Sequences, FiniteSets, TLC

VARIABLES uploaded, pc, df, error, metrics, charts, tieOrder

vars == <<uploaded, pc, df, error, metrics, charts, tieOrder>>

---------------------------------------------------------------------------
(* Bounds of the checked inputs. *)

MaxRows == 2

NumCats == 16

MaxExtra == 1

---------------------------------------------------------------------------
(* Text literals of the program. *)

Male ==
    <<"M", "a", "l", "e" >>
Female ==
    <<"F", "e", "m", "a", "l", "e" >>
CodeNP ==
    <<"N", "P" >>
Nepal ==
    <<"N", "e", "p", "a", "l" >>
CodeIN ==
    <<"I", "N" >>
India ==
    <<"I", "n", "d", "i", "a" >>
CodeUS ==
    <<"U", "S" >>
UnitedStates ==
    <<"U", "n", "i", "t", "e", "d", " ", "S", "t", "a", "t", "e", "s" >>
NoneText ==
    <<"N", "o", "n", "e" >>
NotApplicable ==
    <<"N", "/", "A" >>
VelTechTechnicalUniversity ==
    <<"V", "e", "l", " ", "T", "e", "c", "h", " ", "D", "r", " ", "R", "R", " ", "&", " ", "S",
      "R", " ", "T", "e", "c", "h", "n", "i", "c", "a", "l", " ", "U", "n", "i", "v", "e", "r",
      "s", "i", "t", "y" >>
VelTechDrSagunthala ==
    <<"V", "e", "l", " ", "T", "e", "c", "h", " ", "R", "a", "n", "g", "a", "r", "a", "j", "a",
      "n", " ", "D", "r", ".", "S", "a", "g", "u", "n", "t", "h", "a", "l", "a", " ", "R", "&",
      "D", " ", "I", "n", "s", "t", "i", "t", "u", "t", "e", " ", "o", "f", " ", "S", "c", "i",
      "e", "n", "c", "e", " ", "a", "n", "d", " ", "T", "e", "c", "h", "n", "o", "l", "o", "g",
      "y" >>
VelTechCanonical ==
    <<"V", "e", "l", " ", "T", "e", "c", "h", " ", "R", "a", "n", "g", "a", "r", "a", "j", "a",
      "n", " ", "D", "r", ".", " ", "S", "a", "g", "u", "n", "t", "h", "a", "l", "a", " ", "R",
      "&", "D", " ", "I", "n", "s", "t", "i", "t", "u", "t", "e", " ", "o", "f", " ", "S", "c",
      "i", "e", "n", "c", "e", " ", "a", "n", "d", " ", "T", "e", "c", "h", "n", "o", "l", "o",
      "g", "y" >>
MIT_US ==
    <<"M", "I", "T", "/", "U", "S" >>
MIT_NoCountry ==
    <<"M", "I", "T" >>
KU_Dhulikhel_Nepal ==
    <<"K", "U", ",", " ", "D", "h", "u", "l", "i", "k", "h", "e", "l", "/", "N", "e", "p", "a",
      "l" >>
AIIMS_Delhi_IN ==
    <<"A", "I", "I", "M", "S", "/", "D", "e", "l", "h", "i", "/", "I", "N" >>
East_Cambridge_Boston ==
    <<"E", "a", "s", "t", ",", " ", "C", "a", "m", "b", "r", "i", "d", "g", "e", ",", " ", "B",
      "o", "s", "t", "o", "n" >>
Bagmati_Kathmandu ==
    <<"B", "a", "g", "m", "a", "t", "i", ",", "K", "a", "t", "h", "m", "a", "n", "d", "u" >>
Bagmati_LalitPur_Patan ==
    <<"B", "a", "g", "m", "a", "t", "i", ",", " ", "L", "a", "l", "i", "t", " ", "p", "u", "r",
      "\t", ",", "P", "a", "t", "a", "n" >>
Koshi_Sunsari_Dharan_Ward ==
    <<"K", "o", "s", "h", "i", ",", "S", "u", "n", "s", "a", "r", "i", ",", "D", "h", "a", "r",
      "a", "n", ",", "W", "a", "r", "d", " ", "4" >>
CampusQualifier ==
    <<",", " ", "C", "h", "e", "n", "n", "a", "i" >>
SlashIN ==
    <<"/", "I", "N" >>

(* The missing value pandas pads short rows with. *)
NoneValue == <<"None-object">>

(* The input samples: values of the two composite columns. *)
VelTechTechnicalUniversity_Chennai_IN ==
    VelTechTechnicalUniversity \o CampusQualifier \o SlashIN

VelTechDrSagunthala_IN == VelTechDrSagunthala \o SlashIN

UniversityCountryValues ==
    { MIT_US, MIT_NoCountry, KU_Dhulikhel_Nepal, AIIMS_Delhi_IN,
      VelTechTechnicalUniversity_Chennai_IN, VelTechDrSagunthala_IN }

AddressValues ==
    { East_Cambridge_Boston, Bagmati_Kathmandu, Bagmati_LalitPur_Patan,
      Koshi_Sunsari_Dharan_Ward }

RequiredColumns == <<"University/Country", "Address", "Passout Year", "Gender">>

---------------------------------------------------------------------------
(* Helpers. *)

Max(S) == CHOOSE x \in S : \A y \in S : y <= x

Min(S) == CHOOSE x \in S : \A y \in S : x <= y

Range(f) == { f[i] : i \in DOMAIN f }

(* The characters Python's \s matches, among those the model uses. *)
WhitespaceChars == { " ", "\t", "\n", "\r", "\f" }

Digits == <<"0", "1", "2", "3", "4", "5", "6", "7", "8", "9">>

(* str(n) / f"{n}" of a non-negative int. *)
RECURSIVE IntToStr(_)
IntToStr(n) ==
    IF n < 10 THEN <<Digits[n + 1]>>
    ELSE Append(IntToStr(n \div 10), Digits[(n % 10) + 1])

(* f"{n:,}": decimal digits with a comma between groups of three. *)
RECURSIVE FormatThousands(_)
FormatThousands(n) ==
    IF n < 1000 THEN IntToStr(n)
    ELSE FormatThousands(n \div 1000)
         \o <<",", Digits[((n % 1000) \div 100) + 1],
              Digits[((n % 100) \div 10) + 1], Digits[(n % 10) + 1]>>

(* f"{m / n * 100:.1f}%" for 0 <= m <= n, n > 0: one decimal, ties to even. *)
FormatPercent1(m, n) ==
    LET q == (1000 * m) \div n
        r == (1000 * m) % n
        tenths == IF 2 * r > n THEN q + 1
                  ELSE IF 2 * r = n THEN q + (q % 2)
                  ELSE q
    IN  IntToStr(tenths \div 10) \o <<".", Digits[(tenths % 10) + 1], "%">>

(* Python's str.split(sep) for a one-character sep: every occurrence of sep
   splits, so a text with n occurrences gives n + 1 segments. *)
SepPositions(s, sep) == { i \in 1..Len(s) : s[i] = sep }

(* The position of the k-th occurrence of sep; 0 before the first segment and
   Len(s) + 1 after the last. *)
SepAt(s, sep, k) ==
    IF k = 0 THEN 0
    ELSE IF k > Cardinality(SepPositions(s, sep)) THEN Len(s) + 1
    ELSE CHOOSE i \in SepPositions(s, sep) :
            Cardinality({ j \in SepPositions(s, sep) : j <= i }) = k

(* Variant: str.split(sep, 1), which splits at the first occurrence only. *)
SplitFirst(s, sep) ==
    IF SepPositions(s, sep) = {} THEN <<s>>
    ELSE << SubSeq(s, 1, SepAt(s, sep, 1) - 1), SubSeq(s, SepAt(s, sep, 1) + 1, Len(s)) >>

SplitAll(s, sep) ==
    [ k \in 1..(Cardinality(SepPositions(s, sep)) + 1) |->
        SubSeq(s, SepAt(s, sep, k - 1) + 1, SepAt(s, sep, k) - 1) ]

(* Series.str.split(sep) on one cell: a missing cell stays missing. *)
str_split(s, sep) ==
    IF s = NoneValue THEN <<NoneValue>> ELSE SplitAll(s, sep)

ExpandWidth(parts) ==
    IF parts = <<>> THEN 0 ELSE Max({ Len(parts[r]) : r \in DOMAIN parts })

(* expand=True: one column per segment of the longest row, short rows padded
   with the missing value; no column at all for a table without rows. *)
Expand(parts) ==
    [ width |-> ExpandWidth(parts),
      cells |-> [ r \in DOMAIN parts |->
                    [ k \in 1..ExpandWidth(parts) |->
                        IF k <= Len(parts[r]) THEN parts[r][k] ELSE NoneValue ] ] ]

HasColumn(t, c) == \E i \in DOMAIN t.columns : t.columns[i] = c

Column(t, c) == [ r \in DOMAIN t.rows |-> t.rows[r][c] ]

(* df[c] = vals *)
SetColumn(t, c, vals) ==
    [ columns |-> IF HasColumn(t, c) THEN t.columns ELSE Append(t.columns, c),
      rows    |-> [ r \in DOMAIN t.rows |->
                      [ k \in (DOMAIN t.rows[r]) \cup {c} |->
                          IF k = c THEN vals[r] ELSE t.rows[r][k] ] ] ]

(* Variant: a frame with spare columns is accepted, the spare ones dropped. *)
KeyLengthAtLeast(keys, width) == width >= Len(keys)

(* check_key_length of df[[k1, ..., kn]] = frame *)
KeyLengthMatches(keys, width) == width = Len(keys)

(* df[[k1, ..., kn]] = frame, once the lengths are known to match. *)
RECURSIVE SetColumns(_, _, _, _)
SetColumns(t, keys, cells, k) ==
    IF k > Len(keys) THEN t
    ELSE SetColumns(SetColumn(t, keys[k], [ r \in DOMAIN t.rows |-> cells[r][k] ]),
                    keys, cells, k + 1)

(* df.drop(columns=names) *)
DropColumns(t, names) ==
    [ columns |-> SelectSeq(t.columns, LAMBDA c : c \notin names),
      rows    |-> [ r \in DOMAIN t.rows |->
                      [ k \in (DOMAIN t.rows[r]) \ names |-> t.rows[r][k] ] ] ]

(* str(text) *)
str(text) == IF text = NoneValue THEN NoneText ELSE text

IsWhitespace(ch) == ch \in WhitespaceChars

(* Variant: str(text).strip(), which removes whitespace at the two ends only. *)
strip_spaces(text) ==
    LET kept == { i \in 1..Len(str(text)) : ~IsWhitespace(str(text)[i]) }
    IN  IF kept = {} THEN <<>> ELSE SubSeq(str(text), Min(kept), Max(kept))

(* Lines 59-60: re.sub(r'\s+', '', str(text)). *)
remove_spaces(text) == SelectSeq(str(text), LAMBDA ch : ~IsWhitespace(ch))

(* A dict is a set of <<key, value>> pairs. *)
DictHas(d, k) == \E p \in d : p[1] = k

DictGet(d, k) == (CHOOSE p \in d : p[1] = k)[2]

(* Variant: a table that also maps a full name back to its code. *)
replacements_both_ways ==
    { <<CodeNP, Nepal>>, <<CodeIN, India>>, <<CodeUS, UnitedStates>>, <<Nepal, CodeNP>> }

(* Line 64. *)
replacements ==
    { <<CodeNP, Nepal>>, <<CodeIN, India>>, <<CodeUS, UnitedStates>> }

(* Variant: a table that knows one of the two spellings only. *)
add_replacements_one_spelling ==
    { <<VelTechTechnicalUniversity, VelTechCanonical>> }

(* Lines 68-71. *)
add_replacements ==
    { <<VelTechTechnicalUniversity, VelTechCanonical>>,
      <<VelTechDrSagunthala, VelTechCanonical>> }

(* Series.replace(d) on one cell: exact match, everything else unchanged. *)
replace(v, d) == IF DictHas(d, v) THEN DictGet(d, v) ELSE v

(* Series.map(d) on one cell: the missing value when the key is absent. *)
map(v, d) == IF DictHas(d, v) THEN DictGet(d, v) ELSE NoneValue

(* Series.fillna(other) on one cell. *)
fillna(v, other) == IF v = NoneValue THEN other ELSE v

(* Series.nunique(): the distinct values, the missing value not counted. *)
nunique(col) == Cardinality(Range(col) \ {NoneValue})

---------------------------------------------------------------------------
(* The uploaded files. *)

InputRow(uc, ad, year, gender) ==
    [ c \in Range(RequiredColumns) |->
        CASE c = "University/Country" -> uc
          [] c = "Address"            -> ad
          [] c = "Passout Year"       -> year
          [] c = "Gender"             -> gender ]

(* The Gender and Passout Year a sample row carries: both genders and several
   years occur among the rows. *)
SampleGender(uc) == IF Len(uc) % 2 = 0 THEN Male ELSE Female

SampleYear(uc) == 2019 + (Len(uc) % 3)

(* The sample rows: every University/Country value next to a three-segment
   Address, and every Address value next to a one-slash University/Country. *)
InputRows ==
    { InputRow(uc, East_Cambridge_Boston, SampleYear(uc), SampleGender(uc)) :
        uc \in UniversityCountryValues }
    \cup
    { InputRow(MIT_US, ad, SampleYear(ad), SampleGender(MIT_US)) : ad \in AddressValues }

RECURSIVE SeqsUpTo(_, _)
SeqsUpTo(S, n) ==
    IF n = 0 THEN { <<>> }
    ELSE SeqsUpTo(S, n - 1)
         \cup { Append(s, x) : s \in { t \in SeqsUpTo(S, n - 1) : Len(t) = n - 1 }, x \in S }

FullTables ==
    { [ columns |-> RequiredColumns, rows |-> rs ] : rs \in SeqsUpTo(InputRows, MaxRows) }

(* Every required column present, or exactly one of them absent. *)
UploadedTables ==
    FullTables \cup { DropColumns(t, {c}) : t \in FullTables, c \in Range(RequiredColumns) }

NoTable == [ columns |-> <<>>, rows |-> <<>> ]

NoError == "none"

(* One past the last line of the script: the run is over. *)
EndOfScript == 254

Init ==
    /\ uploaded \in { [ file |-> TRUE, table |-> t ] : t \in UploadedTables }
                    \cup { [ file |-> FALSE, table |-> NoTable ] }
    /\ pc = 47
    /\ df = NoTable
    /\ error = NoError
    /\ metrics = <<>>
    /\ charts = <<>>
    /\ tieOrder \in { "first", "last" }

---------------------------------------------------------------------------
(* The script, statement by statement. *)

(* An exception stops the script at the line that raised it. *)
Raise(type) ==
    /\ error' = type
    /\ pc' = pc

(* Lines 47-52: read the uploaded file, if there is one. *)
Load ==
    /\ pc = 47 /\ error = NoError
    /\ IF uploaded.file
       THEN df' = uploaded.table /\ pc' = 55
       ELSE df' = df /\ pc' = 246
    /\ UNCHANGED <<uploaded, error, metrics, charts, tieOrder>>

(* Lines 245-253: no file yet. *)
AskForFile ==
    /\ pc = 246 /\ error = NoError
    /\ pc' = EndOfScript
    /\ UNCHANGED <<uploaded, df, error, metrics, charts, tieOrder>>

UniversityCountryParts ==
    Expand([ r \in DOMAIN df.rows |-> str_split(df.rows[r]["University/Country"], "/") ])

(* Line 55. *)
SplitUniversityCountry ==
    /\ pc = 55 /\ error = NoError
    /\ IF ~HasColumn(df, "University/Country")
       THEN Raise("KeyError") /\ UNCHANGED df
       ELSE IF ~KeyLengthMatches(<<"University", "Country">>, UniversityCountryParts.width)
       THEN Raise("ValueError") /\ UNCHANGED df
       ELSE /\ df' = SetColumns(df, <<"University", "Country">>,
                                UniversityCountryParts.cells, 1)
            /\ pc' = 56
            /\ UNCHANGED error
    /\ UNCHANGED <<uploaded, metrics, charts, tieOrder>>

AddressParts ==
    Expand([ r \in DOMAIN df.rows |-> str_split(df.rows[r]["Address"], ",") ])

(* Variant: the columns are assigned one by one, the first before the widths
   are compared. *)
SplitAddressColumnByColumn ==
    /\ pc = 56 /\ error = NoError
    /\ IF ~HasColumn(df, "Address")
       THEN Raise("KeyError") /\ UNCHANGED df
       ELSE IF ~KeyLengthMatches(<<"Zone", "District", "City">>, AddressParts.width)
       THEN /\ Raise("ValueError")
            /\ df' = SetColumn(df, "Zone",
                               [ r \in DOMAIN df.rows |-> AddressParts.cells[r][1] ])
       ELSE /\ df' = SetColumns(df, <<"Zone", "District", "City">>, AddressParts.cells, 1)
            /\ pc' = 57
            /\ UNCHANGED error
    /\ UNCHANGED <<uploaded, metrics, charts, tieOrder>>

(* Line 56. *)
SplitAddress ==
    /\ pc = 56 /\ error = NoError
    /\ IF ~HasColumn(df, "Address")
       THEN Raise("KeyError") /\ UNCHANGED df
       ELSE IF ~KeyLengthMatches(<<"Zone", "District", "City">>, AddressParts.width)
       THEN Raise("ValueError") /\ UNCHANGED df
       ELSE /\ df' = SetColumns(df, <<"Zone", "District", "City">>, AddressParts.cells, 1)
            /\ pc' = 57
            /\ UNCHANGED error
    /\ UNCHANGED <<uploaded, metrics, charts, tieOrder>>

(* Line 57. *)
DropSourceColumns ==
    /\ pc = 57 /\ error = NoError
    /\ IF ~(HasColumn(df, "Address") /\ HasColumn(df, "University/Country"))
       THEN Raise("KeyError") /\ UNCHANGED df
       ELSE /\ df' = DropColumns(df, {"Address", "University/Country"})
            /\ pc' = 62
            /\ UNCHANGED error
    /\ UNCHANGED <<uploaded, metrics, charts, tieOrder>>

(* Lines 59-62. *)
CleanDistrict ==
    /\ pc = 62 /\ error = NoError
    /\ df' = SetColumn(df, "District",
                       [ r \in DOMAIN df.rows |-> remove_spaces(df.rows[r]["District"]) ])
    /\ pc' = 65
    /\ UNCHANGED <<uploaded, error, metrics, charts, tieOrder>>

(* Lines 64-65. *)
NormalizeCountry ==
    /\ pc = 65 /\ error = NoError
    /\ df' = SetColumn(df, "Country",
                       [ r \in DOMAIN df.rows |-> replace(df.rows[r]["Country"], replacements) ])
    /\ pc' = 66
    /\ UNCHANGED <<uploaded, error, metrics, charts, tieOrder>>

UniversityParts ==
    Expand([ r \in DOMAIN df.rows |-> str_split(df.rows[r]["University"], ",") ])

(* Line 66: column 0 of the expanded split; a frame without columns has none. *)
TruncateUniversity ==
    /\ pc = 66 /\ error = NoError
    /\ IF UniversityParts.width = 0
       THEN Raise("KeyError") /\ UNCHANGED df
       ELSE /\ df' = SetColumn(df, "University",
                               [ r \in DOMAIN df.rows |-> UniversityParts.cells[r][1] ])
            /\ pc' = 72
            /\ UNCHANGED error
    /\ UNCHANGED <<uploaded, metrics, charts, tieOrder>>

(* Lines 68-72. *)
CanonicalizeUniversity ==
    /\ pc = 72 /\ error = NoError
    /\ df' = SetColumn(df, "University",
                       [ r \in DOMAIN df.rows |->
                           fillna(map(df.rows[r]["University"], add_replacements),
                                  df.rows[r]["University"]) ])
    /\ pc' = 79
    /\ UNCHANGED <<uploaded, error, metrics, charts, tieOrder>>

Metric(label, value) == [ label |-> label, value |-> value ]

(* Line 79: f"{len(df):,}". *)
total_graduates(t) == FormatThousands(Len(t.rows))

(* The number of rows whose Gender is 'Male'. *)
MaleCount(t) == Cardinality({ r \in DOMAIN t.rows : t.rows[r]["Gender"] = Male })

(* Line 85: (df['Gender'] == 'Male').sum() / len(df) * 100 if len(df) > 0 else 0,
   line 86: f"{male_pct:.1f}%". *)
male_pct(t) ==
    IF Len(t.rows) > 0 THEN FormatPercent1(MaleCount(t), Len(t.rows))
    ELSE FormatPercent1(0, 1)

(* Line 88. *)
year_range(t) ==
    IF Len(t.rows) > 0
    THEN IntToStr(Min(Range(Column(t, "Passout Year"))))
         \o <<"-">> \o IntToStr(Max(Range(Column(t, "Passout Year"))))
    ELSE NotApplicable

(* Lines 78-79. *)
MetricTotalGraduates ==
    /\ pc = 79 /\ error = NoError
    /\ metrics' = Append(metrics, Metric("Total Graduates", total_graduates(df)))
    /\ pc' = 81
    /\ UNCHANGED <<uploaded, df, error, charts, tieOrder>>

(* Lines 80-81. *)
MetricUniversities ==
    /\ pc = 81 /\ error = NoError
    /\ metrics' = Append(metrics, Metric("Universities", nunique(Column(df, "University"))))
    /\ pc' = 83
    /\ UNCHANGED <<uploaded, df, error, charts, tieOrder>>

(* Lines 82-83. *)
MetricCountries ==
    /\ pc = 83 /\ error = NoError
    /\ metrics' = Append(metrics, Metric("Countries", nunique(Column(df, "Country"))))
    /\ pc' = 85
    /\ UNCHANGED <<uploaded, df, error, charts, tieOrder>>

(* Variant: the metric is skipped when the table has no Gender column. *)
MetricMalePctSkipsMissing ==
    /\ pc = 85 /\ error = NoError
    /\ IF Len(df.rows) > 0 /\ ~HasColumn(df, "Gender")
       THEN metrics' = metrics
       ELSE metrics' = Append(metrics, Metric("Male %", male_pct(df)))
    /\ pc' = 88
    /\ UNCHANGED <<uploaded, df, error, charts, tieOrder>>

(* Lines 84-86: Gender is read only when the table has rows. *)
MetricMalePct ==
    /\ pc = 85 /\ error = NoError
    /\ IF Len(df.rows) > 0 /\ ~HasColumn(df, "Gender")
       THEN Raise("KeyError") /\ UNCHANGED metrics
       ELSE /\ metrics' = Append(metrics, Metric("Male %", male_pct(df)))
            /\ pc' = 88
            /\ UNCHANGED error
    /\ UNCHANGED <<uploaded, df, charts, tieOrder>>

(* Lines 87-89: Passout Year is read only when the table has rows. *)
MetricYearRange ==
    /\ pc = 88 /\ error = NoError
    /\ IF Len(df.rows) > 0 /\ ~HasColumn(df, "Passout Year")
       THEN Raise("KeyError") /\ UNCHANGED metrics
       ELSE /\ metrics' = Append(metrics, Metric("Year Range", year_range(df)))
            /\ pc' = 103
            /\ UNCHANGED error
    /\ UNCHANGED <<uploaded, df, charts, tieOrder>>

---------------------------------------------------------------------------
(* The aggregations behind the charts. *)

(* The columns of text: their cells may hold the missing value.  Passout Year
   is a column of integers. *)
IsMissing(t, c, r) == c # "Passout Year" /\ t.rows[r][c] = NoneValue

(* The rows at which a value of column c occurs for the first time; the
   missing value is not counted (dropna). *)
FirstPositions(t, c) ==
    { i \in DOMAIN t.rows :
        ~IsMissing(t, c, i) /\ \A j \in 1..(i - 1) : t.rows[j][c] # t.rows[i][c] }

Occurrences(t, c, v) == Cardinality({ j \in DOMAIN t.rows : t.rows[j][c] = v })

(* Whether the category first seen at row i comes before the one first seen
   at row j in value_counts(), given the counts: the larger count first.
   pandas leaves the order of equal counts to the sort of the build; tie is
   that order, fixed for the run: by first appearance, or the reverse. *)
CountsBefore(count, i, j, tie) ==
    \/ count[i] > count[j]
    \/ /\ count[i] = count[j]
       /\ IF tie = "first" THEN i < j ELSE j < i

(* A function over 1..n written out as the sequence of its values. *)
AsSeq(f) == f \o <<>>

(* Variant: value_counts(sort=False), the categories in order of first
   appearance. *)
value_counts_unsorted(t, c, tie) ==
    LET first == FirstPositions(t, c)
    IN  [ k \in 1..Cardinality(first) |->
            LET i == CHOOSE i \in first : Cardinality({ j \in first : j < i }) = k - 1
            IN  <<t.rows[i][c], Occurrences(t, c, t.rows[i][c])>> ]

(* df[c].value_counts(): <<value, count>> pairs, descending by count.  count
   and place are kept per row; only the rows of FirstPositions are read. *)
value_counts(t, c, tie) ==
    LET first == FirstPositions(t, c)
        count == AsSeq([ i \in DOMAIN t.rows |-> Occurrences(t, c, t.rows[i][c]) ])
        place == AsSeq([ i \in DOMAIN t.rows |->
                           Cardinality({ j \in first : CountsBefore(count, j, i, tie) }) ])
    IN  [ k \in 1..Cardinality(first) |->
            LET i == CHOOSE i \in first : place[i] = k - 1
            IN  <<t.rows[i][c], count[i]>> ]

(* .head(n) *)
head(s, n) == SubSeq(s, 1, IF n < Len(s) THEN n ELSE Len(s))

(* .index of a frequency table *)
index(counts) == [ k \in DOMAIN counts |-> counts[k][1] ]

(* value_counts().sort_index() of an integer column: ascending by value. *)
sort_index(counts) ==
    [ k \in DOMAIN counts |->
        CHOOSE p \in Range(counts) :
            Cardinality({ q \in Range(counts) : q[1] < p[1] }) = k - 1 ]

(* df[df[c].isin(values)] *)
isin_rows(t, c, values) ==
    [ columns |-> t.columns,
      rows    |-> SelectSeq(t.rows, LAMBDA row : row[c] \in Range(values)) ]

(* pivot_table(index=a, columns=b, aggfunc='size', fill_value=0): the labels
   of both axes and the number of rows per cell (the axes' sort order, which
   only places the bars, is left out). *)
pivot_table(t, a, b) ==
    LET kept == { r \in DOMAIN t.rows : ~IsMissing(t, a, r) /\ ~IsMissing(t, b, r) }
        idx  == { t.rows[r][a] : r \in kept }
        cols == { t.rows[r][b] : r \in kept }
    IN  [ index   |-> idx,
          columns |-> cols,
          size    |-> [ cell \in idx \X cols |->
                          Cardinality({ r \in kept : /\ t.rows[r][a] = cell[1]
                                                     /\ t.rows[r][b] = cell[2] }) ] ]

TopUniversitiesShown == 15

TopUniversitiesTrended == 10

TopDistrictsShown == 15

Chart(title, data) == [ title |-> title, data |-> data ]

(* Line 103. *)
GraduationTrends(t, tie) == sort_index(value_counts(t, "Passout Year", tie))

(* Line 117. *)
GenderDistribution(t, tie) == value_counts(t, "Gender", tie)

(* Line 131. *)
GenderTrends(t) == pivot_table(t, "Passout Year", "Gender")

(* Line 149. *)
GenderByZone(t) == pivot_table(t, "Zone", "Gender")

(* Line 162. *)
CountryDistribution(t, tie) == value_counts(t, "Country", tie)

(* Line 176. *)
TopUniversities(t, tie) ==
    head(value_counts(t, "University", tie), TopUniversitiesShown)

(* Line 193. *)
top_unis(t, tie) ==
    index(head(value_counts(t, "University", tie), TopUniversitiesTrended))

(* Line 194. *)
temp(t, tie) == isin_rows(t, "University", top_unis(t, tie))

(* Lines 193-195. *)
UniversityTrends(t, tie) ==
    [ top_unis |-> top_unis(t, tie),
      pivot    |-> pivot_table(temp(t, tie), "Passout Year", "University") ]

(* Line 212. *)
TopDistricts(t, tie) ==
    head(value_counts(t, "District", tie), TopDistrictsShown)

(* Line 229. *)
ZoneOverTime(t) == pivot_table(t, "Passout Year", "Zone")

(* Lines 96-140: the Overview tab. *)
ChartsOverview(t, tie) ==
    << Chart("Graduation Trends Over Time", GraduationTrends(t, tie)),
       Chart("Gender Distribution", GenderDistribution(t, tie)),
       Chart("Gender Trends by Year", GenderTrends(t)) >>

(* Lines 142-170: the Demographics tab. *)
ChartsDemographics(t, tie) ==
    << Chart("Gender by Zone", GenderByZone(t)),
       Chart("Country Distribution", CountryDistribution(t, tie)) >>

TabOverview ==
    /\ pc = 103 /\ error = NoError
    /\ charts' = charts \o ChartsOverview(df, tieOrder)
    /\ pc' = 149
    /\ UNCHANGED <<uploaded, df, error, metrics, tieOrder>>

TabDemographics ==
    /\ pc = 149 /\ error = NoError
    /\ charts' = charts \o ChartsDemographics(df, tieOrder)
    /\ pc' = 176
    /\ UNCHANGED <<uploaded, df, error, metrics, tieOrder>>

(* Lines 173-188. *)
ChartTopUniversities ==
    /\ pc = 176 /\ error = NoError
    /\ charts' = Append(charts, Chart("Top Universities", TopUniversities(df, tieOrder)))
    /\ pc' = 193
    /\ UNCHANGED <<uploaded, df, error, metrics, tieOrder>>

(* Lines 190-203. *)
ChartUniversityTrends ==
    /\ pc = 193 /\ error = NoError
    /\ charts' = Append(charts, Chart("University Enrollment Trends",
                                      UniversityTrends(df, tieOrder)))
    /\ pc' = 212
    /\ UNCHANGED <<uploaded, df, error, metrics, tieOrder>>

(* Lines 208-223. *)
ChartTopDistricts ==
    /\ pc = 212 /\ error = NoError
    /\ charts' = Append(charts, Chart("Top 15 Districts", TopDistricts(df, tieOrder)))
    /\ pc' = 229
    /\ UNCHANGED <<uploaded, df, error, metrics, tieOrder>>

(* Lines 226-237. *)
ChartZoneOverTime ==
    /\ pc = 229 /\ error = NoError
    /\ charts' = Append(charts, Chart("Zone Distribution Over Time", ZoneOverTime(df)))
    /\ pc' = 242
    /\ UNCHANGED <<uploaded, df, error, metrics, tieOrder>>

(* Lines 239-242. *)
ShowDataset ==
    /\ pc = 242 /\ error = NoError
    /\ pc' = EndOfScript
    /\ UNCHANGED <<uploaded, df, error, metrics, charts, tieOrder>>

---------------------------------------------------------------------------
(* Runs that have reached the Universities tab with many categories: cleaned
   tables of up to NumCats universities and districts, one row each, with
   up to MaxExtra further rows behind them that repeat some of them. *)

Letters ==
    << "a", "b", "c", "d", "e", "f", "g", "h", "i", "j", "k", "l", "m",
       "n", "o", "p", "q", "r", "s", "t", "u", "v", "w", "x", "y", "z" >>

CleanedColumns ==
    <<"Passout Year", "Gender", "University", "Country", "Zone", "District", "City">>

CleanedRow(i) ==
    [ c \in Range(CleanedColumns) |->
        CASE c = "Passout Year" -> 2020 + (i % 3)
          [] c = "Gender"       -> IF i % 2 = 0 THEN Male ELSE Female
          [] c = "University"   -> <<"U", "n", "i", Letters[i]>>
          [] c = "Country"      -> IF i % 2 = 0 THEN India ELSE Nepal
          [] c = "Zone"         -> <<"Z", Letters[1 + (i % 4)]>>
          [] c = "District"     -> <<"D", Letters[i]>>
          [] c = "City"         -> <<" ", "C", Letters[i]>> ]

CleanedTable(k, extra) ==
    [ columns |-> CleanedColumns,
      rows    |-> [ i \in 1..k |-> CleanedRow(i) ]
                  \o [ r \in DOMAIN extra |-> CleanedRow(extra[r]) ] ]

CleanedTables ==
    UNION { { CleanedTable(k, extra) : extra \in SeqsUpTo(1..k, MaxExtra) } :
              k \in 1..NumCats }

(* The file a cleaned table comes from. *)
SourceRow(row) ==
    InputRow(row["University"] \o <<"/">> \o row["Country"],
             row["Zone"] \o <<",">> \o row["District"] \o <<",">> \o row["City"],
             row["Passout Year"], row["Gender"])

SourceTable(t) ==
    [ columns |-> RequiredColumns, rows |-> [ r \in DOMAIN t.rows |-> SourceRow(t.rows[r]) ] ]

MetricsOf(t) ==
    << Metric("Total Graduates", total_graduates(t)),
       Metric("Universities", nunique(Column(t, "University"))),
       Metric("Countries", nunique(Column(t, "Country"))),
       Metric("Male %", male_pct(t)),
       Metric("Year Range", year_range(t)) >>

InitCharts ==
    /\ tieOrder \in { "first", "last" }
    /\ df \in CleanedTables
    /\ uploaded = [ file |-> TRUE, table |-> SourceTable(df) ]
    /\ pc = 176
    /\ error = NoError
    /\ metrics = MetricsOf(df)
    /\ charts = ChartsOverview(df, tieOrder) \o ChartsDemographics(df, tieOrder)

NextCharts ==
    \/ ChartTopUniversities
    \/ ChartUniversityTrends
    \/ ChartTopDistricts
    \/ ChartZoneOverTime
    \/ ShowDataset

SpecCharts == InitCharts /\ [][NextCharts]_vars

Next ==
    \/ Load
    \/ AskForFile
    \/ SplitUniversityCountry
    \/ SplitAddress
    \/ DropSourceColumns
    \/ CleanDistrict
    \/ NormalizeCountry
    \/ TruncateUniversity
    \/ CanonicalizeUniversity
    \/ MetricTotalGraduates
    \/ MetricUniversities
    \/ MetricCountries
    \/ MetricMalePct
    \/ MetricYearRange
    \/ TabOverview
    \/ TabDemographics
    \/ NextCharts

Spec == Init /\ [][Next]_vars


(* Expected texts of the properties. *)

TextMIT ==
    <<"M", "I", "T" >>
TextEast ==
    <<"E", "a", "s", "t" >>
TextCambridge ==
    <<"C", "a", "m", "b", "r", "i", "d", "g", "e" >>
TextBoston ==
    <<"B", "o", "s", "t", "o", "n" >>
TextZeroPercent ==
    <<"0", ".", "0", "%" >>

---------------------------------------------------------------------------
(* What the properties below are stated with: the text of the uploaded file,
   counted and cut independently of the split the script performs. *)

Uploaded(r, c) == uploaded.table.rows[r][c]

UploadedRows == DOMAIN uploaded.table.rows

MissingColumns == { c \in Range(RequiredColumns) : ~HasColumn(uploaded.table, c) }

CountChar(s, ch) == Cardinality({ i \in 1..Len(s) : s[i] = ch })

SegmentCount(s, ch) == CountChar(s, ch) + 1

FirstIndex(s, ch) == Min({ i \in 1..Len(s) : s[i] = ch })

TextBeforeFirst(s, ch) ==
    IF CountChar(s, ch) = 0 THEN s ELSE SubSeq(s, 1, FirstIndex(s, ch) - 1)

TextAfterFirst(s, ch) == SubSeq(s, FirstIndex(s, ch) + 1, Len(s))

MaxOrZero(S) == IF S = {} THEN 0 ELSE Max(S)

(* The largest number of sep-separated segments among the values of column c
   of the uploaded table; 0 for a table without rows. *)
MaxSegments(c, sep) == MaxOrZero({ SegmentCount(Uploaded(r, c), sep) : r \in UploadedRows })

(* The statement at line `line` has raised. *)
FailedAt(line) == pc = line /\ error # NoError

(* The statement at `line` has been executed, with or without an exception. *)
Attempted(line) == uploaded.file /\ (pc > line \/ FailedAt(line))

(* The statement at `line` has been executed without an exception. *)
Passed(line) == uploaded.file /\ pc > line

(* The script is right behind the statement at `line`. *)
JustPassed(line, next) == uploaded.file /\ pc = next /\ error = NoError

MetricValues(label) ==
    { metrics[i].value : i \in { j \in DOMAIN metrics : metrics[j].label = label } }

ChartData(title) ==
    { charts[i].data : i \in { j \in DOMAIN charts : charts[j].title = title } }

---------------------------------------------------------------------------
(* C1 as stated: whenever some row's Address does not have exactly three
   comma-separated segments, the Address split (line 56) fails with the
   column-count error (ValueError, the spec's SchemaMismatch) for the batch. *)
C1_AnyBadRowFailsTheBatch ==
    (Attempted(56) /\ MissingColumns = {})
        => ( (\E r \in UploadedRows : SegmentCount(Uploaded(r, "Address"), ",") # 3)
                => (FailedAt(56) /\ error = "ValueError") )

(* C1 amended: the Address split fails with the column-count error exactly
   when the largest segment count over the rows of the batch differs from
   three.  A row with fewer segments in a batch whose longest row has three
   does not fail the batch: its missing fields hold the missing value. *)
C1_LongestRowDecides ==
    (Attempted(56) /\ HasColumn(uploaded.table, "Address"))
        => /\ (FailedAt(56) /\ error = "ValueError") <=> (MaxSegments("Address", ",") # 3)
           /\ JustPassed(56, 57) =>
                \A r \in UploadedRows :
                    LET a == Uploaded(r, "Address")
                        n == SegmentCount(a, ",")
                    IN  /\ df.rows[r]["Zone"] = TextBeforeFirst(a, ",")
                        /\ df.rows[r]["District"] =
                              IF n >= 2 THEN TextBeforeFirst(TextAfterFirst(a, ","), ",")
                              ELSE NoneValue
                        /\ df.rows[r]["City"] =
                              IF n >= 3 THEN TextAfterFirst(TextAfterFirst(a, ","), ",")
                              ELSE NoneValue

(* C1 witness: the split has passed although a row has fewer than three
   segments. *)
C1_ShortRowPassed ==
    /\ JustPassed(56, 57)
    /\ \E r \in UploadedRows : SegmentCount(Uploaded(r, "Address"), ",") < 3
    /\ \E r \in UploadedRows : df.rows[r]["City"] = NoneValue

(* C2 as stated: with a required column absent, the run that stops with the
   missing-column error (KeyError, the spec's MissingColumn) stops before any
   transformation: the table is as uploaded and no metric or chart has been
   produced. *)
C2_AbortsBeforeAnyTransformation ==
    (uploaded.file /\ MissingColumns # {} /\ error = "KeyError")
        => /\ df = uploaded.table
           /\ metrics = <<>>
           /\ charts = <<>>

(* The line that reads column c first. *)
FirstUse(c) ==
    CASE c = "University/Country" -> 55
      [] c = "Address"            -> 56
      [] c = "Gender"             -> 85
      [] c = "Passout Year"       -> 88

(* How far the run has come when the first read of the absent column c
   raises. *)
ProgressAtFirstUse(c) ==
    CASE c = "University/Country" ->
            df = uploaded.table /\ metrics = <<>>
      [] c = "Address" ->
            /\ df.columns = uploaded.table.columns \o <<"University", "Country">>
            /\ metrics = <<>>
      [] c = "Gender" ->
            /\ Range(df.columns) = Range(CleanedColumns) \ {"Gender"}
            /\ Len(metrics) = 3
      [] c = "Passout Year" ->
            /\ Range(df.columns) = Range(CleanedColumns) \ {"Passout Year"}
            /\ Len(metrics) = 4

(* C2 amended: with a required column absent the run never gets past the
   first read of that column and draws no chart; when it stops at that read
   it is with KeyError (the spec's MissingColumn), and only for
   University/Country is that before any transformation: for Address the
   University and Country columns have been added, for Gender and Passout
   Year the cleaning pass is complete and the metrics before have been
   produced. *)
C2_AbortsAtFirstUse ==
    uploaded.file =>
        \A c \in MissingColumns :
            /\ pc <= FirstUse(c)
            /\ charts = <<>>
            /\ FailedAt(FirstUse(c)) => (error = "KeyError" /\ ProgressAtFirstUse(c))

(* C2 witness: Gender is absent and the run has stopped at its first read,
   after the cleaning pass and three metrics. *)
C2_GenderMissedAfterCleaning ==
    /\ uploaded.file
    /\ "Gender" \in MissingColumns
    /\ FailedAt(85)
    /\ Len(metrics) = 3
    /\ HasColumn(df, "District")

(* C3 as stated: a table without rows and with every required column goes
   through the cleaning pass and the metrics without an exception, and the
   metrics show 0 for Male % and N/A for Year Range. *)
C3_EmptyTableReachesMetrics ==
    (uploaded.file /\ MissingColumns = {} /\ UploadedRows = {})
        => /\ error = NoError
           /\ pc > 88 => /\ MetricValues("Male %") = { TextZeroPercent }
                         /\ MetricValues("Year Range") = { NotApplicable }

(* C4 as stated: the row MIT/US, "East, Cambridge, Boston" is cleaned to
   University MIT, Country United States, Zone East, District Cambridge, City
   Boston. *)
C4_ExampleRowCleaned ==
    Passed(72) =>
        \A r \in UploadedRows :
            ( /\ Uploaded(r, "University/Country") = MIT_US
              /\ Uploaded(r, "Address") = East_Cambridge_Boston )
            => /\ df.rows[r]["University"] = TextMIT
               /\ df.rows[r]["Country"] = UnitedStates
               /\ df.rows[r]["Zone"] = TextEast
               /\ df.rows[r]["District"] = TextCambridge
               /\ df.rows[r]["City"] = TextBoston

(* C5 as stated: every University/Country value with at least one '/' is
   split on its first '/' only: the split (line 55) does not fail on it, and
   University is the text before the first '/', Country all the text after. *)
C5_SplitOnFirstSlashOnly ==
    (Attempted(55) /\ MissingColumns = {})
        => \A r \in UploadedRows :
              CountChar(Uploaded(r, "University/Country"), "/") >= 1
              => /\ ~FailedAt(55)
                 /\ JustPassed(55, 56) =>
                      /\ df.rows[r]["University"] =
                            TextBeforeFirst(Uploaded(r, "University/Country"), "/")
                      /\ df.rows[r]["Country"] =
                            TextAfterFirst(Uploaded(r, "University/Country"), "/")

(* C5 amended: the split is on every '/'.  It fails for the whole batch, the
   table left as uploaded, exactly when the largest number of '/'-separated
   segments over the batch differs from two (a value with more than one '/',
   or no value with any).  Otherwise a value with one '/' gives the text
   before it as University and the text after it as Country, and a value
   without '/' gives itself as University and the missing value as Country. *)
C5_SplitOnEverySlash ==
    (Attempted(55) /\ HasColumn(uploaded.table, "University/Country"))
        => /\ (FailedAt(55) /\ error = "ValueError")
                <=> (MaxSegments("University/Country", "/") # 2)
           /\ FailedAt(55) => df = uploaded.table
           /\ JustPassed(55, 56) =>
                \A r \in UploadedRows :
                    LET uc == Uploaded(r, "University/Country")
                    IN  /\ df.rows[r]["University"] = TextBeforeFirst(uc, "/")
                        /\ df.rows[r]["Country"] =
                              IF CountChar(uc, "/") = 1 THEN TextAfterFirst(uc, "/")
                              ELSE NoneValue

(* C5 witness: a batch with a one-slash value and a two-slash value has
   failed at the split. *)
C5_TwoSlashesFailedTheBatch ==
    /\ FailedAt(55) /\ error = "ValueError"
    /\ \E r \in UploadedRows : CountChar(Uploaded(r, "University/Country"), "/") = 1
    /\ \E r \in UploadedRows : CountChar(Uploaded(r, "University/Country"), "/") > 1

(* C6: once District has been cleaned (line 62), and so after every cleaning
   pass that completes, no District value holds a whitespace character at
   any position. *)
C6_DistrictHasNoWhitespace ==
    Passed(62) =>
        \A r \in UploadedRows :
            \A i \in DOMAIN df.rows[r]["District"] :
                df.rows[r]["District"][i] \notin WhitespaceChars

(* C6 witness: a completed cleaning pass over an Address whose district
   segment has whitespace between two of its other characters. *)
C6_InnerWhitespaceCleaned ==
    /\ Passed(72)
    /\ \E r \in UploadedRows :
          LET a == Uploaded(r, "Address")
          IN  /\ SegmentCount(a, ",") = 3
              /\ \E i, j, k \in 1..Len(a) :
                    /\ FirstIndex(a, ",") < i /\ i < j /\ j < k
                    /\ \A m \in i..k : a[m] # ","
                    /\ a[i] \notin WhitespaceChars
                    /\ a[j] \in WhitespaceChars
                    /\ a[k] \notin WhitespaceChars

(* C7: Country normalization is idempotent: normalizing a normalized value
   changes nothing.  Stated of every Country the table holds once line 65
   has run, and of every key and value of the lookup table. *)
C7_CountryNormalizationIdempotent ==
    /\ Passed(65) =>
          \A r \in UploadedRows :
              replace(df.rows[r]["Country"], replacements) = df.rows[r]["Country"]
    /\ \A v \in { p[1] : p \in replacements } \cup { p[2] : p \in replacements } :
          replace(replace(v, replacements), replacements) = replace(v, replacements)

(* C7 witness: the table has been normalized, one Country from its code and
   one that was no code. *)
C7_CodesNormalized ==
    /\ Passed(65)
    /\ \E r \in UploadedRows :
          /\ Uploaded(r, "University/Country") = MIT_US
          /\ df.rows[r]["Country"] = UnitedStates
    /\ \E r \in UploadedRows :
          /\ Uploaded(r, "University/Country") = KU_Dhulikhel_Nepal
          /\ df.rows[r]["Country"] = Nepal

(* The canonical name of a University text: the two Vel Tech spellings map
   to one name, every other text to itself. *)
Canon(t) ==
    IF t = VelTechTechnicalUniversity \/ t = VelTechDrSagunthala
    THEN VelTechCanonical
    ELSE t

(* C8: after lines 66-72 every University is Canon of the split University
   text cut before its first comma. *)
C8_UniversityCanonical ==
    Passed(72) =>
        \A r \in UploadedRows :
            df.rows[r]["University"] =
                Canon(TextBeforeFirst(
                        TextBeforeFirst(Uploaded(r, "University/Country"), "/"), ","))

(* C8 witness: both Vel Tech spellings, one with a campus qualifier, and an
   unmapped name with a qualifier have been normalized in one table. *)
C8_VariantsMerged ==
    /\ Passed(72)
    /\ \E r \in UploadedRows :
          /\ Uploaded(r, "University/Country") = VelTechTechnicalUniversity_Chennai_IN
          /\ df.rows[r]["University"] = VelTechCanonical
    /\ \E r \in UploadedRows :
          /\ Uploaded(r, "University/Country") = VelTechDrSagunthala_IN
          /\ df.rows[r]["University"] = VelTechCanonical

(* C9 as stated: when the Address split fails with the column-count error
   the table is the uploaded table: none of the five new columns, both source
   columns. *)
C9_FailedSplitLeavesUploadedTable ==
    (uploaded.file /\ MissingColumns = {} /\ FailedAt(56) /\ error = "ValueError")
        => df = uploaded.table

(* C9 amended: when the Address split fails with the column-count error the
   table has none of Zone, District and City and still has every uploaded
   column with its uploaded values, both source columns among them; but it
   already has the University and Country columns that line 55 added. *)
C9_FailedSplitKeepsEarlierColumns ==
    (uploaded.file /\ FailedAt(56) /\ error = "ValueError")
        => /\ df.columns = uploaded.table.columns \o <<"University", "Country">>
           /\ HasColumn(df, "Address") /\ HasColumn(df, "University/Country")
           /\ DOMAIN df.rows = UploadedRows
           /\ \A r \in UploadedRows :
                /\ DOMAIN df.rows[r] = Range(df.columns)
                /\ \A c \in Range(uploaded.table.columns) : df.rows[r][c] = Uploaded(r, c)
                /\ df.rows[r]["University"] =
                      TextBeforeFirst(Uploaded(r, "University/Country"), "/")

(* C9 witness: the Address split has failed with the column-count error. *)
C9_AddressSplitFailed ==
    /\ uploaded.file /\ FailedAt(56) /\ error = "ValueError"
    /\ \E r \in UploadedRows : SegmentCount(Uploaded(r, "Address"), ",") > 3

(* The categories of column c of the cleaned table and their frequencies,
   counted row by row. *)
Categories(c) == { df.rows[r][c] : r \in DOMAIN df.rows } \ { NoneValue }

Frequency(c, v) == Cardinality({ r \in DOMAIN df.rows : df.rows[r][c] = v })

Smaller(a, b) == IF a < b THEN a ELSE b

(* names is a Top-n of column c: min(n, number of categories) different
   categories, none less frequent than a category left out, in descending
   order of frequency. *)
IsTopN(names, c, n) ==
    /\ Len(names) = Smaller(n, Cardinality(Categories(c)))
    /\ \A k \in DOMAIN names : names[k] \in Categories(c)
    /\ \A k, l \in DOMAIN names : k < l =>
          /\ names[k] # names[l]
          /\ Frequency(c, names[k]) >= Frequency(c, names[l])
    /\ \A k \in DOMAIN names : \A v \in Categories(c) \ Range(names) :
          Frequency(c, names[k]) >= Frequency(c, v)

(* counts is the frequency table of a Top-n of column c. *)
IsTopNTable(counts, c, n) ==
    /\ IsTopN([ k \in DOMAIN counts |-> counts[k][1] ], c, n)
    /\ \A k \in DOMAIN counts : counts[k][2] = Frequency(c, counts[k][1])

(* C10: the Top Universities and Top 15 Districts charts hold a Top-15
   frequency table of their column, the University Enrollment Trends chart is
   drawn for a Top-10 of University, and its cross-tabulation has no
   university outside that Top-10. *)
C10_TopNFiltering ==
    /\ \A d \in ChartData("Top Universities") :
          IsTopNTable(d, "University", TopUniversitiesShown)
    /\ \A d \in ChartData("Top 15 Districts") :
          IsTopNTable(d, "District", TopDistrictsShown)
    /\ \A d \in ChartData("University Enrollment Trends") :
          /\ IsTopN(d.top_unis, "University", TopUniversitiesTrended)
          /\ d.pivot.columns \subseteq Range(d.top_unis)
          /\ \A cell \in DOMAIN d.pivot.size :
                d.pivot.size[cell] =
                    Cardinality({ r \in DOMAIN df.rows :
                                    /\ df.rows[r]["Passout Year"] = cell[1]
                                    /\ df.rows[r]["University"] = cell[2] })

(* C10 witness: the charts have been drawn for a table with more than 15
   universities and districts, where a category that appears late in the
   table is more frequent than the earlier ones. *)
C10_MoreCategoriesThanShown ==
    /\ pc = EndOfScript
    /\ ChartData("Top 15 Districts") # {}
    /\ Cardinality(Categories("University")) > TopUniversitiesShown
    /\ Cardinality(Categories("District")) > TopDistrictsShown
    /\ \E r \in DOMAIN df.rows :
          /\ r > TopUniversitiesShown
          /\ Frequency("University", df.rows[r]["University"]) > 1
          /\ \A q \in 1..TopUniversitiesTrended :
                Frequency("University", df.rows[q]["University"]) = 1

===========================================================================
